---- MODULE Spec2Model ----
(***************************************************************************)
(* Model of the MacMon MCP server (src/server.py): the two formatting      *)
(* helpers, the alert evaluation, the report builders, the tool dispatch   *)
(* and the --test entry point.                                             *)
(*                                                                         *)
(* Text is modelled structurally: a report is a sequence of lines, a line  *)
(* a record with the line's label ("tag") and the values interpolated in   *)
(* it.  The OS metrics provider (psutil) is the environment: every read    *)
(* is a nondeterministic choice among the values, or the failure, it can   *)
(* produce.                                                                *)
(***************************************************************************)
EXTENDS Integers, Sequences, FiniteSets

VARIABLES pc, request, called, result, printed, arg, ret

vars == <<pc, request, called, result, printed, arg, ret>>

None == [tag |-> "None"]

\* What a call of a report function yields: its value, or an exception
\* raised out of it.
Ok(value) == [raised |-> FALSE, value |-> value]
Raised == [raised |-> TRUE, value |-> <<>>]

\* A read of the provider that raises outside any try block.
ReadFailure == [fails |-> TRUE]

-----------------------------------------------------------------------------
(* Bounds of the model.                                                    *)

\* A byte count is written in base 1024, least significant digit first,
\* NumDigits digits long.  Its non-zero digits lie in a window of MantDigits
\* consecutive digits (at most 40 bits), so that the int -> float
\* conversion and every division by 1024.0 of format_bytes are exact.
NumDigits == 7
MantDigits == 3

\* The digits the window is filled with: the ends of the digit range, the
\* ties of the one-decimal rounding (256, 768), one half (512) and the two
\* digits around 1023.95 * 1024 / 1024 (972, 973).
DigitSet == {0, 1, 256, 512, 768, 972, 973, 1023}

-----------------------------------------------------------------------------
(* format_bytes, src/server.py:19-25                                       *)

Base == 1024

\* The unit list with TB left out: the fault C7_AtMost1024 must detect.
Units_WithoutTB == <<"B", "KB", "MB", "GB">>

Units == <<"B", "KB", "MB", "GB", "TB">>

Zeros(k) == [i \in 1..k |-> 0]

\* The byte counts of the model.
ByteCounts ==
    { Zeros(s) \o m \o Zeros(NumDigits - MantDigits - s) :
        s \in 0..(NumDigits - MantDigits), m \in [1..MantDigits -> DigitSet] }

\* After k divisions by 1024.0 the value is ds / 1024^k: its integer part
\* is made of the digits above k, its fraction of the digits 1..k.
RECURSIVE IntPart(_, _)
IntPart(ds, k) ==
    IF k >= Len(ds) THEN 0 ELSE ds[k + 1] + Base * IntPart(ds, k + 1)

\* bytes < 1024.0 after k divisions: no digit above the (k+1)-th is set.
Below1024(ds, k) == \A i \in (k + 2)..Len(ds) : ds[i] = 0

\* 10 * fraction, digit by digit from the least significant one: the carry
\* out of the top digit is floor(10 * fraction), rem the digits left.
RECURSIVE TimesTen(_, _, _, _)
TimesTen(ds, k, i, acc) ==
    IF i > k THEN acc
    ELSE LET x == 10 * ds[i] + acc.carry
         IN  TimesTen(ds, k, i + 1,
                      [carry |-> x \div Base, rem |-> Append(acc.rem, x % Base)])

\* The remainder against one half: -1 below, 0 a tie, 1 above.
HalfCmp(rem) ==
    IF rem = <<>> THEN -1
    ELSE LET top == rem[Len(rem)]
             low == \E i \in 1..(Len(rem) - 1) : rem[i] # 0
         IN  IF top > Base \div 2 THEN 1
             ELSE IF top < Base \div 2 THEN -1
             ELSE IF low THEN 1 ELSE 0

\* f"{bytes:.1f}": the value rounded to one decimal, ties to even.
OneDecimal(ds, k) ==
    LET t    == TimesTen(ds, k, 1, [carry |-> 0, rem |-> <<>>])
        c    == HalfCmp(t.rem)
        up   == c = 1 \/ (c = 0 /\ t.carry % 2 = 1)
        dec  == IF up THEN t.carry + 1 ELSE t.carry
        int  == IntPart(ds, k)
    IN  IF dec = 10 THEN [int |-> int + 1, dec |-> 0]
        ELSE [int |-> int, dec |-> dec]

RECURSIVE FormatBytesLoop(_, _)
FormatBytesLoop(ds, k) ==
    IF k = Len(Units)
    THEN [num |-> OneDecimal(ds, k), unit |-> "PB"]
    ELSE IF Below1024(ds, k)
         THEN [num |-> OneDecimal(ds, k), unit |-> Units[k + 1]]
         ELSE FormatBytesLoop(ds, k + 1)

format_bytes(bytes) == FormatBytesLoop(bytes, 0)

-----------------------------------------------------------------------------
(* format_uptime, src/server.py:27-39                                      *)

\* The largest elapsed duration (now - boot instant) of the model, in
\* seconds, on either side of zero.
MaxSecs == 100000

SecsPerDay == 86400
SecsPerHour == 3600
SecsPerMin == 60

\* uptime_seconds: the elapsed duration.  Python's // and % floor, as \div
\* and % do, so the fraction of a second never changes a result and the
\* duration is modelled in whole seconds.
Durations == (-MaxSecs)..MaxSecs

Part(n, u) == [n |-> n, u |-> u]

\* format_uptime with the hours taken of the whole duration, not of the
\* rest of the day: the fault C9_FlooredParts must detect.
format_uptime_WholeHours(uptime_seconds) ==
    LET days    == uptime_seconds \div SecsPerDay
        hours   == uptime_seconds \div SecsPerHour
        minutes == (uptime_seconds % SecsPerHour) \div SecsPerMin
    IN  IF days > 0
        THEN <<Part(days, "d"), Part(hours, "h"), Part(minutes, "m")>>
        ELSE IF hours > 0
             THEN <<Part(hours, "h"), Part(minutes, "m")>>
             ELSE <<Part(minutes, "m")>>

\* The string is modelled as the sequence of its "<number><unit>" parts.
format_uptime(uptime_seconds) ==
    LET days    == uptime_seconds \div SecsPerDay
        hours   == (uptime_seconds % SecsPerDay) \div SecsPerHour
        minutes == (uptime_seconds % SecsPerHour) \div SecsPerMin
    IN  IF days > 0
        THEN <<Part(days, "d"), Part(hours, "h"), Part(minutes, "m")>>
        ELSE IF hours > 0
             THEN <<Part(hours, "h"), Part(minutes, "m")>>
             ELSE <<Part(minutes, "m")>>

-----------------------------------------------------------------------------
(* The helpers applied to every input of the model.                        *)

Idle ==
    /\ request = None
    /\ called = <<>>
    /\ result = None
    /\ printed = <<>>

InitFormatBytes ==
    /\ pc = "call_format_bytes"
    /\ arg \in ByteCounts
    /\ ret = None
    /\ Idle

CallFormatBytes ==
    /\ pc = "call_format_bytes"
    /\ ret' = format_bytes(arg)
    /\ pc' = "return"
    /\ UNCHANGED <<request, called, result, printed, arg>>

SpecFormatBytes == InitFormatBytes /\ [][CallFormatBytes]_vars

InitFormatUptime ==
    /\ pc = "call_format_uptime"
    /\ arg \in Durations
    /\ ret = None
    /\ Idle

CallFormatUptime ==
    /\ pc = "call_format_uptime"
    /\ ret' = format_uptime(arg)
    /\ pc' = "return"
    /\ UNCHANGED <<request, called, result, printed, arg>>

SpecFormatUptime == InitFormatUptime /\ [][CallFormatUptime]_vars

-----------------------------------------------------------------------------
(* check_system_alerts, src/server.py:41-85                                *)

\* The usage percentages the provider reports: the thresholds, the value
\* next above each, and the two ends of the range.
Percents == {0, 75, 76, 80, 81, 85, 86, 90, 91, 95, 96, 100}

\* What one call reads: cpu_percent, memory.percent, disk.percent and
\* swap.percent.
AlertSamples ==
    [cpu : Percents, memory : Percents, disk : Percents, swap : Percents, fails : {FALSE}]
        \cup {ReadFailure}

CpuMedium == 80
CpuHigh == 90
MemoryMedium == 85
MemoryHigh == 95
DiskMedium == 90
DiskHigh == 95
SwapMedium == 75

Alert(level, type, value) ==
    [level |-> level, type |-> type,
     message |-> [domain |-> type, text |-> "usage is", percent |-> value],
     value |-> value]

\* CheckCpu with >= for >: the fault C1_Severity must detect.
CheckCpu_Inclusive(cpu_percent) ==
    IF cpu_percent >= CpuMedium
    THEN <<Alert(IF cpu_percent >= CpuHigh THEN "high" ELSE "medium", "CPU", cpu_percent)>>
    ELSE <<>>

CheckCpu(cpu_percent) ==
    IF cpu_percent > CpuMedium
    THEN <<Alert(IF cpu_percent > CpuHigh THEN "high" ELSE "medium", "CPU", cpu_percent)>>
    ELSE <<>>

CheckMemory(percent) ==
    IF percent > MemoryMedium
    THEN <<Alert(IF percent > MemoryHigh THEN "high" ELSE "medium", "Memory", percent)>>
    ELSE <<>>

CheckDisk(percent) ==
    IF percent > DiskMedium
    THEN <<Alert(IF percent > DiskHigh THEN "high" ELSE "medium", "Disk", percent)>>
    ELSE <<>>

CheckSwap(percent) ==
    IF percent > SwapMedium
    THEN <<Alert("medium", "Swap", percent)>>
    ELSE <<>>

\* The four checks chained with elif, so that only the first domain that
\* qualifies is reported: the fault C2_OnePerDomainInOrder must detect.
check_system_alerts_FirstOnly(sample) ==
    IF sample.fails THEN Raised
    ELSE Ok(IF CheckCpu(sample.cpu) # <<>> THEN CheckCpu(sample.cpu)
            ELSE IF CheckMemory(sample.memory) # <<>> THEN CheckMemory(sample.memory)
            ELSE IF CheckDisk(sample.disk) # <<>> THEN CheckDisk(sample.disk)
            ELSE CheckSwap(sample.swap))

\* alerts.append in source order: CPU, Memory, Disk, Swap.
check_system_alerts(sample) ==
    IF sample.fails THEN Raised
    ELSE Ok(CheckCpu(sample.cpu) \o CheckMemory(sample.memory)
              \o CheckDisk(sample.disk) \o CheckSwap(sample.swap))

-----------------------------------------------------------------------------
(* get_top_processes, src/server.py:122-174                                *)

\* The largest number of processes the provider enumerates, and the largest
\* limit a request asks for besides the default.
MaxProcs == 3
MaxLimit == 4

DefaultLimit == 10

\* proc.info of one process: cpu_percent and memory_percent (None already
\* replaced by 0.0, lines 141-142); "gone" is a process whose read raises
\* inside the try block and is skipped (lines 156-159).
ProcReads == [cpu : {0, 1, 2}, mem : {0, 1}, gone : {FALSE}]
                \cup {[cpu |-> 0, mem |-> 0, gone |-> TRUE]}

ProcLists == UNION { [1..n -> ProcReads] : n \in 0..MaxProcs }

\* psutil.process_iter(): the enumeration, unless it raises.
ProcSamples == [reads : ProcLists, fails : {FALSE}] \cup {ReadFailure}

\* The list built by the loop at lines 134-159: one entry per readable
\* process, in provider order; the pid is the position in the enumeration.
\* The resident size (memory_info.rss in MB) is only rendered, never
\* compared: it stands as the memory fraction's value.
RECURSIVE Collect(_, _)
Collect(reads, i) ==
    IF i > Len(reads) THEN <<>>
    ELSE (IF reads[i].gone THEN <<>>
          ELSE <<[pid |-> i, name |-> "proc", cpu_percent |-> reads[i].cpu,
                  memory_percent |-> reads[i].mem, memory_mb |-> reads[i].mem]>>)
         \o Collect(reads, i + 1)

SortKey(p, sort_by) ==
    IF sort_by = "memory" THEN p.memory_percent ELSE p.cpu_percent

\* An insertion that places an entry before the entries of the same key,
\* which turns the order of equal keys around: the fault C6_TopProcesses
\* must detect.
RECURSIVE InsertDesc_Unstable(_, _, _)
InsertDesc_Unstable(sorted, p, sort_by) ==
    IF sorted = <<>> THEN <<p>>
    ELSE IF SortKey(Head(sorted), sort_by) > SortKey(p, sort_by)
         THEN <<Head(sorted)>> \o InsertDesc_Unstable(Tail(sorted), p, sort_by)
         ELSE <<p>> \o sorted

\* list.sort(key=..., reverse=True): a stable sort, descending.  An entry is
\* placed after every entry already placed whose key is not smaller.
RECURSIVE InsertDesc(_, _, _)
InsertDesc(sorted, p, sort_by) ==
    IF sorted = <<>> THEN <<p>>
    ELSE IF SortKey(Head(sorted), sort_by) >= SortKey(p, sort_by)
         THEN <<Head(sorted)>> \o InsertDesc(Tail(sorted), p, sort_by)
         ELSE <<p>> \o sorted

RECURSIVE SortDesc(_, _, _)
SortDesc(ps, k, sort_by) ==
    IF k = 0 THEN <<>>
    ELSE InsertDesc(SortDesc(ps, k - 1, sort_by), ps[k], sort_by)

\* processes[:limit]: a negative limit counts from the end.
Slice(ps, limit) ==
    LET n == Len(ps)
        k == IF limit >= 0 THEN (IF limit < n THEN limit ELSE n)
             ELSE (IF n + limit > 0 THEN n + limit ELSE 0)
    IN  SubSeq(ps, 1, k)

Upper(sort_by) == IF sort_by = "memory" THEN "MEMORY" ELSE "CPU"

\* The header line, then one numbered entry per process (lines 168-172).
TopProcessesText(reads, limit, sort_by) ==
    LET processes == Collect(reads, 1)
        sorted    == SortDesc(processes, Len(processes), sort_by)
        top       == Slice(sorted, limit)
    IN  <<[tag |-> "Top Processes", limit |-> limit, by |-> Upper(sort_by)]>>
        \o [i \in 1..Len(top) |->
              [tag |-> "entry", number |-> i, name |-> top[i].name, pid |-> top[i].pid,
               cpu |-> top[i].cpu_percent, memory |-> top[i].memory_percent,
               mb |-> top[i].memory_mb]]

get_top_processes(s, limit, sort_by) ==
    IF s.fails THEN Raised ELSE Ok(TopProcessesText(s.reads, limit, sort_by))

-----------------------------------------------------------------------------
(* get_system_status, src/server.py:87-120                                 *)

Line(tag) == [tag |-> tag]

\* A byte count of the provider: the digits m shifted up by s digits.
Bytes(m, s) == Zeros(s) \o m

\* virtual_memory(), swap_memory() and disk_usage('/'): a lightly and a
\* heavily used resource.
UsageReads ==
    { [percent |-> 25, used |-> Bytes(<<512, 1>>, 2), total |-> Bytes(<<6>>, 3),
       free |-> Bytes(<<512, 4>>, 2)],
      [percent |-> 96, used |-> Bytes(<<973, 1023>>, 2), total |-> Bytes(<<1>>, 4),
       free |-> Bytes(<<51>>, 1)] }

\* boot_time() and the clock read by format_uptime, in seconds.
ClockReads == { [boot |-> 1000, now |-> 1000], [boot |-> 1000, now |-> 92800],
                [boot |-> 1000, now |-> 940] }

StatusSamples ==
    [cpu_percent : {12, 91}, cpu_count : {8}, load : {<<1, 2, 3>>},
     memory : UsageReads, swap : UsageReads, disk : UsageReads, clock : ClockReads,
     fails : {FALSE}]
        \cup {ReadFailure}

get_system_status(s) ==
    IF s.fails THEN Raised ELSE Ok(
    << Line("MacMon System Status"),
       Line("CPU"),
       [tag |-> "Usage", percent |-> s.cpu_percent, cores |-> s.cpu_count],
       [tag |-> "Load Average", loads |-> s.load],
       Line("Memory"),
       [tag |-> "RAM", percent |-> s.memory.percent,
        used |-> format_bytes(s.memory.used), total |-> format_bytes(s.memory.total)],
       [tag |-> "Swap", percent |-> s.swap.percent,
        used |-> format_bytes(s.swap.used), total |-> format_bytes(s.swap.total)],
       [tag |-> "Available", free |-> format_bytes(s.memory.free)],
       Line("Storage"),
       [tag |-> "Disk Usage", percent |-> s.disk.percent],
       [tag |-> "Used", used |-> format_bytes(s.disk.used),
        total |-> format_bytes(s.disk.total)],
       [tag |-> "Free", free |-> format_bytes(s.disk.free)],
       Line("System"),
       [tag |-> "Uptime", uptime |-> format_uptime(s.clock.now - s.clock.boot)],
       [tag |-> "Boot Time", stamp |-> s.clock.boot] >>)

-----------------------------------------------------------------------------
(* get_network_stats, src/server.py:176-203                                *)

AF_INET == 2

\* net_if_addrs(): the interfaces in provider order, each with its
\* addresses (family, address).
AddrReads ==
    { <<>>,
      << [interface |-> "lo0", addrs |-> <<[family |-> 2, address |-> "127.0.0.1"],
                                           [family |-> 30, address |-> "::1"]>>] >>,
      << [interface |-> "lo0", addrs |-> <<[family |-> 30, address |-> "::1"]>>],
         [interface |-> "en0", addrs |-> <<[family |-> 18, address |-> "mac"],
                                           [family |-> 2, address |-> "10.0.0.2"]>>] >> }

NetworkSamples ==
    [bytes_sent : {Bytes(<<0>>, 0), Bytes(<<768, 1>>, 1)},
     bytes_recv : {Bytes(<<1023>>, 0), Bytes(<<1>>, 5)},
     packets_sent : {1500}, packets_recv : {2500},
     errin : {0, 1}, errout : {2}, dropin : {0}, dropout : {0, 3},
     addrs : AddrReads, fails : {FALSE}]
        \cup {ReadFailure}

RECURSIVE IPv4Of(_, _, _)
IPv4Of(interface, addr_list, j) ==
    IF j > Len(addr_list) THEN <<>>
    ELSE (IF addr_list[j].family = AF_INET
          THEN <<[tag |-> "interface", interface |-> interface,
                  address |-> addr_list[j].address]>>
          ELSE <<>>)
         \o IPv4Of(interface, addr_list, j + 1)

RECURSIVE ActiveInterfaces(_, _)
ActiveInterfaces(addrs, i) ==
    IF i > Len(addrs) THEN <<>>
    ELSE IPv4Of(addrs[i].interface, addrs[i].addrs, 1) \o ActiveInterfaces(addrs, i + 1)

NetworkText(s) ==
    LET active_interfaces == ActiveInterfaces(s.addrs, 1)
    IN  << Line("Network Statistics"),
           Line("Data Transfer"),
           [tag |-> "Sent", bytes |-> format_bytes(s.bytes_sent)],
           [tag |-> "Received", bytes |-> format_bytes(s.bytes_recv)],
           Line("Packets"),
           [tag |-> "Sent", packets |-> s.packets_sent],
           [tag |-> "Received", packets |-> s.packets_recv],
           [tag |-> "Errors", packets |-> s.errin + s.errout],
           [tag |-> "Dropped", packets |-> s.dropin + s.dropout] >>
        \o (IF active_interfaces # <<>>
            THEN <<Line("Active Interfaces")>> \o active_interfaces
            ELSE <<>>)

get_network_stats(s) == IF s.fails THEN Raised ELSE Ok(NetworkText(s))

-----------------------------------------------------------------------------
(* get_cpu_details, src/server.py:205-236                                  *)

\* The largest number of cores the provider reports usage for.
MaxCores == 2

CoreReads == UNION { [1..n -> {0, 50}] : n \in 0..MaxCores }

\* psutil.cpu_freq(): it raises, returns None, or returns the frequencies;
\* "broken" is a returned object whose max cannot be compared (the read
\* fails part-way, after the current frequency was rendered).
FreqReads ==
    { [kind |-> "raises", current |-> 0, max |-> 0, broken |-> FALSE],
      [kind |-> "none", current |-> 0, max |-> 0, broken |-> FALSE] }
    \cup [kind : {"freq"}, current : {2400}, max : {0, 3200}, broken : BOOLEAN]

CpuSamples ==
    [cores : CoreReads, physical : {4}, logical : {8}, freq : FreqReads,
     load : {<<1, 2, 3>>}, fails : {FALSE}]
        \cup {ReadFailure}

\* The try block without its except clause, so that an exception raised in
\* it leaves get_cpu_details: the fault C10_FrequencyOptional must detect.
FrequencyBlock_Propagates(cpu_freq) ==
    IF cpu_freq.kind = "raises" THEN [lines |-> <<>>, raised |-> TRUE]
    ELSE IF cpu_freq.kind = "none" THEN [lines |-> <<>>, raised |-> FALSE]
    ELSE LET current == <<[tag |-> "Current Frequency", mhz |-> cpu_freq.current]>>
         IN  IF cpu_freq.broken THEN [lines |-> current, raised |-> TRUE]
             ELSE IF cpu_freq.max > 0
                  THEN [lines |-> current \o <<[tag |-> "Max Frequency",
                                                 mhz |-> cpu_freq.max]>>,
                        raised |-> FALSE]
                  ELSE [lines |-> current, raised |-> FALSE]

\* The try block of lines 217-224: the lines added to the result until
\* the block ends or an exception is raised in it.  The bare except
\* swallows every exception, so none leaves the block.
FrequencyBlock(cpu_freq) ==
    IF cpu_freq.kind = "raises" THEN [lines |-> <<>>, raised |-> FALSE]
    ELSE IF cpu_freq.kind = "none" THEN [lines |-> <<>>, raised |-> FALSE]
    ELSE LET current == <<[tag |-> "Current Frequency", mhz |-> cpu_freq.current]>>
         IN  IF cpu_freq.broken THEN [lines |-> current, raised |-> FALSE]
             ELSE IF cpu_freq.max > 0
                  THEN [lines |-> current \o <<[tag |-> "Max Frequency",
                                                 mhz |-> cpu_freq.max]>>,
                        raised |-> FALSE]
                  ELSE [lines |-> current, raised |-> FALSE]

CpuText(s, frequency_lines) ==
    << Line("Detailed CPU Information"),
       Line("Overall"),
       [tag |-> "Physical Cores", count |-> s.physical],
       [tag |-> "Logical Cores", count |-> s.logical] >>
    \o frequency_lines
    \o <<Line("Per-Core Usage")>>
    \o [i \in 1..Len(s.cores) |-> [tag |-> "Core", index |-> i - 1, percent |-> s.cores[i]]]
    \o << Line("Load Average"),
          [tag |-> "1 min", load |-> s.load[1]],
          [tag |-> "5 min", load |-> s.load[2]],
          [tag |-> "15 min", load |-> s.load[3]] >>

get_cpu_details(s) ==
    IF s.fails THEN Raised
    ELSE LET block == FrequencyBlock(s.freq)
         IN  IF block.raised THEN Raised ELSE Ok(CpuText(s, block.lines))

-----------------------------------------------------------------------------
(* handle_call_tool, src/server.py:301-340                                 *)

ToolNames ==
    {"get_system_status", "get_top_processes", "get_network_stats",
     "get_cpu_details", "check_alerts"}

\* Names a caller may send that are not tools of the server.
UnknownNames == {"", "check_system_alerts", "get_disk_usage", "GET_SYSTEM_STATUS"}

\* The arguments object: None, or a dict holding any of limit and sort_by.
Limits == (-1)..MaxLimit
SortKeys == {"cpu", "memory"}
EmptyArgs == [k \in {} |-> 0]
NoArgs == {None, EmptyArgs}
Arguments ==
    NoArgs \cup [limit : Limits] \cup [sort_by : SortKeys]
           \cup [limit : Limits, sort_by : SortKeys]

\* `arguments.get(key, default) if arguments else default`
ArgOr(arguments, key, default) ==
    IF key \in DOMAIN arguments THEN arguments[key] ELSE default

TextContent(text) ==
    [kind |-> "content", error |-> "", content |-> <<[type |-> "text", text |-> text]>>]

Raise(error) == [kind |-> "raise", error |-> error, content |-> <<>>]

NoAlertsText == <<Line("All systems normal - no alerts")>>

\* The level compared with a string no alert carries, so that no line gets
\* the high marker: the fault C5_AlertText must detect.
Emoji_WrongCase(alert) == IF alert.level = "HIGH" THEN "red" ELSE "yellow"

Emoji(alert) == IF alert.level = "high" THEN "red" ELSE "yellow"

\* Lines 328-337: the fixed text, or the header and one line per alert.
AlertResponse(alerts) ==
    IF alerts = <<>> THEN NoAlertsText
    ELSE <<Line("System Alerts")>>
         \o [i \in 1..Len(alerts) |->
               [tag |-> "alert", emoji |-> Emoji(alerts[i]), type |-> alerts[i].type,
                message |-> alerts[i].message]]

\* One report function is called; an exception raised in it leaves the
\* handler.
Dispatched(name, arguments, fn, sample, value) ==
    /\ request' = [name |-> name, arguments |-> arguments]
    /\ called' = <<fn>>
    /\ arg' = sample
    /\ ret' = value

CallGetSystemStatus(name, arguments) ==
    /\ name = "get_system_status"
    /\ \E s \in StatusSamples :
          LET status == get_system_status(s)
          IN  /\ Dispatched(name, arguments, "get_system_status", s, status)
              /\ result' = IF status.raised THEN Raise("provider error")
                           ELSE TextContent(status.value)

CallGetTopProcesses(name, arguments) ==
    /\ name = "get_top_processes"
    /\ \E s \in ProcSamples :
          LET limit   == ArgOr(arguments, "limit", DefaultLimit)
              sort_by == ArgOr(arguments, "sort_by", "cpu")
              text    == get_top_processes(s, limit, sort_by)
          IN  /\ Dispatched(name, arguments, "get_top_processes",
                            [procs |-> s, limit |-> limit, sort_by |-> sort_by], text)
              /\ result' = IF text.raised THEN Raise("provider error")
                           ELSE TextContent(text.value)

CallGetNetworkStats(name, arguments) ==
    /\ name = "get_network_stats"
    /\ \E s \in NetworkSamples :
          LET text == get_network_stats(s)
          IN  /\ Dispatched(name, arguments, "get_network_stats", s, text)
              /\ result' = IF text.raised THEN Raise("provider error")
                           ELSE TextContent(text.value)

CallGetCpuDetails(name, arguments) ==
    /\ name = "get_cpu_details"
    /\ \E s \in CpuSamples :
          LET text == get_cpu_details(s)
          IN  /\ Dispatched(name, arguments, "get_cpu_details", s, text)
              /\ result' = IF text.raised THEN Raise("provider error")
                           ELSE TextContent(text.value)

CallCheckAlerts(name, arguments) ==
    /\ name = "check_alerts"
    /\ \E s \in AlertSamples :
          LET alerts == check_system_alerts(s)
          IN  /\ Dispatched(name, arguments, "check_system_alerts", s, alerts)
              /\ result' = IF alerts.raised THEN Raise("provider error")
                           ELSE TextContent(AlertResponse(alerts.value))

\* An unknown name answered with an empty text instead of an exception:
\* the fault C4_Dispatch must detect.
CallUnknown_Silent(name, arguments) ==
    /\ name \notin ToolNames
    /\ request' = [name |-> name, arguments |-> arguments]
    /\ called' = <<>>
    /\ arg' = None
    /\ ret' = None
    /\ result' = TextContent(<<>>)

\* Line 340: no branch matched.
CallUnknown(name, arguments) ==
    /\ name \notin ToolNames
    /\ request' = [name |-> name, arguments |-> arguments]
    /\ called' = <<>>
    /\ arg' = None
    /\ ret' = None
    /\ result' = Raise("ValueError: Unknown tool")

handle_call_tool(name, arguments) ==
    \/ CallGetSystemStatus(name, arguments)
    \/ CallGetTopProcesses(name, arguments)
    \/ CallGetNetworkStats(name, arguments)
    \/ CallGetCpuDetails(name, arguments)
    \/ CallCheckAlerts(name, arguments)
    \/ CallUnknown(name, arguments)

\* A request of the protocol reaches the handler while the server runs.
\* Only get_top_processes declares parameters.
HandleCallTool ==
    /\ pc = "serving"
    /\ \E name \in ToolNames \cup UnknownNames :
         \E arguments \in (IF name = "get_top_processes" THEN Arguments ELSE NoArgs) :
            handle_call_tool(name, arguments)
    /\ pc' = "responded"
    /\ UNCHANGED printed

\* The response is sent and the server waits for the next request; nothing
\* of a request outlives it.
NextRequest ==
    /\ pc = "responded"
    /\ pc' = "serving"
    /\ request' = None
    /\ called' = <<>>
    /\ result' = None
    /\ arg' = None
    /\ ret' = None
    /\ UNCHANGED printed

-----------------------------------------------------------------------------
(* main, src/server.py:342-399                                             *)

\* sys.argv
Argvs == { <<"server.py">>, <<"server.py", "--test">>, <<"server.py", "--help">> }

\* The machine a self-test runs on: an idle or a loaded one, so that the
\* printed output of a whole run stays small.
TestStatusSamples ==
    { s \in StatusSamples \ {ReadFailure} : /\ s.memory = s.swap /\ s.swap = s.disk
                            /\ s.clock.now = s.clock.boot
                            /\ (s.cpu_percent > CpuHigh) = (s.disk.percent > DiskHigh) }
TestProcSamples ==
    { s \in ProcSamples \ {ReadFailure} :
        Len(s.reads) <= 1 /\ \A i \in DOMAIN s.reads : s.reads[i].mem = 0 }
TestNetworkSamples ==
    { s \in NetworkSamples \ {ReadFailure} : /\ Len(s.addrs) # 1 /\ s.errin = 0 /\ s.dropout = 0
                             /\ (s.bytes_sent = Bytes(<<0>>, 0)) = (s.addrs = <<>>)
                             /\ (s.bytes_recv = Bytes(<<1023>>, 0)) = (s.addrs = <<>>) }
TestCpuSamples ==
    { s \in CpuSamples \ {ReadFailure} : /\ Len(s.cores) = 1 /\ s.cores[1] = 0
                         /\ ~s.freq.broken /\ s.freq.max = 0 }
TestAlertSamples ==
    { s \in AlertSamples \ {ReadFailure} : /\ s.cpu \in {0, 100} /\ s.memory = s.cpu
                           /\ s.disk = s.cpu /\ s.swap = s.cpu }

Out(tag, body) == [tag |-> tag, body |-> body]

\* Lines 345-347 and 375-389: the self-test when the first argument is
\* --test, the protocol server otherwise.
main ==
    /\ pc = "main"
    /\ \E argv \in Argvs :
          IF Len(argv) > 1 /\ argv[2] = "--test"
          THEN /\ printed' = <<Out("MacMon Test Mode", <<>>), Out("1. System Status:", <<>>)>>
               /\ pc' = "test_system_status"
          ELSE /\ printed' = <<Out("stderr: Starting MacMon MCP Server", <<>>)>>
               /\ pc' = "serving"
    /\ UNCHANGED <<request, called, result, arg, ret>>

\* Line 348, outside any try: a failure leaves main and reaches the handler
\* of lines 397-399, which ends the program.
TestSystemStatus ==
    /\ pc = "test_system_status"
    /\ called' = Append(called, "get_system_status")
    /\ \E s \in TestStatusSamples \cup {ReadFailure} :
          LET status == get_system_status(s)
          IN  IF status.raised
              THEN /\ printed' = Append(printed, Out("stderr: Error", <<>>))
                   /\ pc' = "exit_1"
              ELSE /\ printed' = printed \o <<Out("report", status.value),
                                              Out("2. Top 5 Processes:", <<>>)>>
                   /\ pc' = "test_top_processes"
    /\ UNCHANGED <<request, result, arg, ret>>

TestLimit == 5

\* Lines 350-353
TestTopProcesses ==
    /\ pc = "test_top_processes"
    /\ called' = Append(called, "get_top_processes")
    /\ \E s \in TestProcSamples \cup {ReadFailure} :
          LET text == get_top_processes(s, TestLimit, "cpu")
          IN  printed' = printed \o
                 << IF text.raised THEN Out("Error getting processes", <<>>)
                    ELSE Out("report", text.value),
                    Out("3. Network Stats:", <<>>) >>
    /\ pc' = "test_network_stats"
    /\ UNCHANGED <<request, result, arg, ret>>

\* Lines 355-358
TestNetworkStats ==
    /\ pc = "test_network_stats"
    /\ called' = Append(called, "get_network_stats")
    /\ \E s \in TestNetworkSamples \cup {ReadFailure} :
          LET text == get_network_stats(s)
          IN  printed' = printed \o
                 << IF text.raised THEN Out("Error getting network stats", <<>>)
                    ELSE Out("report", text.value),
                    Out("4. CPU Details:", <<>>) >>
    /\ pc' = "test_cpu_details"
    /\ UNCHANGED <<request, result, arg, ret>>

\* Lines 360-364
TestCpuDetails ==
    /\ pc = "test_cpu_details"
    /\ called' = Append(called, "get_cpu_details")
    /\ \E s \in TestCpuSamples \cup {ReadFailure} :
          LET text == get_cpu_details(s)
          IN  printed' = printed \o
                 << IF text.raised THEN Out("Error getting CPU details", <<>>)
                    ELSE Out("report", text.value),
                    Out("5. Checking Alerts:", <<>>) >>
    /\ pc' = "test_alerts"
    /\ UNCHANGED <<request, result, arg, ret>>

\* Lines 365-372, outside any try as well.
TestAlerts ==
    /\ pc = "test_alerts"
    /\ called' = Append(called, "check_system_alerts")
    /\ \E s \in TestAlertSamples \cup {ReadFailure} :
          LET alerts == check_system_alerts(s)
          IN  IF alerts.raised
              THEN /\ printed' = Append(printed, Out("stderr: Error", <<>>))
                   /\ pc' = "exit_1"
              ELSE /\ printed' = printed \o
                        (IF alerts.value # <<>>
                         THEN [i \in 1..Len(alerts.value) |->
                                 Out("alert", <<[type |-> alerts.value[i].type,
                                                 message |-> alerts.value[i].message]>>)]
                         ELSE <<Out("No alerts", <<>>)>>)
                        \o <<Out("MacMon testing complete!", <<>>)>>
                   /\ pc' = "exit_0"
    /\ UNCHANGED <<request, result, arg, ret>>

-----------------------------------------------------------------------------
(* The program                                                             *)

Init ==
    /\ pc = "main"
    /\ arg = None
    /\ ret = None
    /\ Idle

Next ==
    \/ main
    \/ HandleCallTool
    \/ NextRequest
    \/ TestSystemStatus
    \/ TestTopProcesses
    \/ TestNetworkStats
    \/ TestCpuDetails
    \/ TestAlerts

Spec == Init /\ [][Next]_vars

-----------------------------------------------------------------------------
(* Properties                                                              *)

Responded(name) ==
    /\ pc = "responded"
    /\ request.name = name
    /\ result.kind = "content"

Text == result.content[1].text

\* The level of the alert of a domain in a list of alerts, "none" if the
\* list holds none.
LevelsOf(alerts, domain) ==
    { alerts[i].level : i \in { j \in DOMAIN alerts : alerts[j].type = domain } }

ExpectedLevels(value, medium, high) ==
    IF value > high THEN {"high"} ELSE IF value > medium THEN {"medium"} ELSE {}

\* C1: every domain of a sample gets the severity high above its high
\* threshold (CPU 90, memory 95, disk 95), else medium above its medium
\* threshold (CPU 80, memory 85, disk 90, swap 75), else no alert; swap is
\* never high, and a value equal to a threshold does not exceed it.
C1_Severity ==
    Responded("check_alerts") =>
        /\ LevelsOf(ret.value, "CPU") = ExpectedLevels(arg.cpu, 80, 90)
        /\ LevelsOf(ret.value, "Memory") = ExpectedLevels(arg.memory, 85, 95)
        /\ LevelsOf(ret.value, "Disk") = ExpectedLevels(arg.disk, 90, 95)
        /\ LevelsOf(ret.value, "Swap") = ExpectedLevels(arg.swap, 75, 100)
        /\ \A i \in DOMAIN ret.value :
              /\ ret.value[i].level \in {"medium", "high"}
              /\ ret.value[i].type = "Swap" => ret.value[i].level = "medium"

\* A sample with the CPU exactly on its high threshold, the disk exactly on
\* its medium threshold and the swap full.
C1_Witness ==
    /\ Responded("check_alerts")
    /\ arg.cpu = 90 /\ arg.memory = 96 /\ arg.disk = 90 /\ arg.swap = 100
    /\ LevelsOf(ret.value, "CPU") = {"medium"}
    /\ LevelsOf(ret.value, "Memory") = {"high"}
    /\ LevelsOf(ret.value, "Disk") = {}
    /\ LevelsOf(ret.value, "Swap") = {"medium"}

C2_Exceeds(domain) ==
    \/ domain = "CPU" /\ arg.cpu > 80
    \/ domain = "Memory" /\ arg.memory > 85
    \/ domain = "Disk" /\ arg.disk > 90
    \/ domain = "Swap" /\ arg.swap > 75

\* C2: the returned list holds exactly one alert for each domain whose
\* value exceeds its medium threshold and none for the others, in the order
\* CPU, Memory, Disk, Swap.
C2_OnePerDomainInOrder ==
    Responded("check_alerts") =>
        /\ [i \in DOMAIN ret.value |-> ret.value[i].type]
              = SelectSeq(<<"CPU", "Memory", "Disk", "Swap">>, C2_Exceeds)
        /\ Len(ret.value) <= 4
        /\ \A i \in DOMAIN ret.value :
              ret.value[i].value = (CASE ret.value[i].type = "CPU" -> arg.cpu
                                      [] ret.value[i].type = "Memory" -> arg.memory
                                      [] ret.value[i].type = "Disk" -> arg.disk
                                      [] OTHER -> arg.swap)

\* Memory and swap exceed, CPU and disk do not: two alerts, memory first.
C2_Witness ==
    /\ Responded("check_alerts")
    /\ arg.cpu = 80 /\ arg.memory = 86 /\ arg.disk = 0 /\ arg.swap = 76
    /\ Len(ret.value) = 2
    /\ ret.value[1].type = "Memory" /\ ret.value[2].type = "Swap"

FiveOperations ==
    <<"get_system_status", "get_top_processes", "get_network_stats",
      "get_cpu_details", "check_system_alerts">>

\* C3: a self-test run attempts all five operations in order, whatever
\* operation fails, and always ends by printing the 'testing complete' line.
C3_AllFiveAlwaysRun ==
    pc \in {"exit_0", "exit_1"} =>
        /\ called = FiveOperations
        /\ printed[Len(printed)].tag = "MacMon testing complete!"

ReportFunction(name) ==
    IF name = "check_alerts" THEN "check_system_alerts" ELSE name

\* C4: a name outside the five tool names raises, returns no text content
\* and calls no report function; one of the five names calls exactly the
\* report function of that tool.
C4_Dispatch ==
    pc = "responded" =>
        IF request.name \in {"get_system_status", "get_top_processes",
                             "get_network_stats", "get_cpu_details", "check_alerts"}
        THEN /\ called = <<ReportFunction(request.name)>>
             /\ result.kind = "content" <=> ~ret.raised
             /\ result.kind = "content" =>
                   /\ Len(result.content) = 1
                   /\ request.name # "check_alerts" => Text = ret.value
        ELSE /\ result.kind = "raise"
             /\ result.content = <<>>
             /\ called = <<>>

C4_Witness ==
    /\ pc = "responded"
    /\ request.name = "check_system_alerts"
    /\ result.kind = "raise"
    /\ called = <<>>

\* C5: check_alerts returns the fixed 'no alerts' text exactly when the
\* alert list is empty; otherwise a header and one line per alert, in the
\* order of the list, each with the alert's domain and message, and the
\* high marker on a line exactly when the alert's severity is high.
C5_AlertText ==
    Responded("check_alerts") =>
        /\ Len(result.content) = 1 /\ result.content[1].type = "text"
        /\ ret.value = <<>> => Text = <<[tag |-> "All systems normal - no alerts"]>>
        /\ ret.value # <<>> =>
              /\ Len(Text) = 1 + Len(ret.value)
              /\ Text[1] = [tag |-> "System Alerts"]
              /\ \A i \in DOMAIN ret.value :
                    /\ Text[i + 1].tag = "alert"
                    /\ Text[i + 1].type = ret.value[i].type
                    /\ Text[i + 1].message = ret.value[i].message
                    /\ Text[i + 1].message.percent = ret.value[i].value
                    /\ Text[i + 1].emoji \in {"red", "yellow"}
                    /\ Text[i + 1].emoji = "red" <=> ret.value[i].level = "high"

C5_Witness ==
    /\ Responded("check_alerts")
    /\ Len(ret.value) = 4
    /\ Len(Text) = 5
    /\ Text[2].emoji = "red" /\ Text[2].type = "CPU"
    /\ Text[4].emoji = "yellow" /\ Text[4].type = "Disk"
    /\ Text[5].emoji = "yellow" /\ Text[5].type = "Swap"

\* The processes of the provider's enumeration that could be read, by
\* position, and the fraction the request sorts by.
C6_Readable == { i \in DOMAIN arg.procs.reads : ~arg.procs.reads[i].gone }

C6_Fraction(i) ==
    IF arg.sort_by = "memory" THEN arg.procs.reads[i].mem ELSE arg.procs.reads[i].cpu

\* The place of process i in the descending order: behind every process of
\* a larger fraction and every earlier process of the same fraction.
C6_Rank(i) ==
    1 + Cardinality({ j \in C6_Readable :
                        \/ C6_Fraction(j) > C6_Fraction(i)
                        \/ (C6_Fraction(j) = C6_Fraction(i) /\ j < i) })

C6_Min(a, b) == IF a < b THEN a ELSE b

\* C6: for a list of n readable processes, a limit >= 0 and a sort key in
\* {cpu, memory}, the report is the header followed by min(limit, n) entries
\* numbered 1..min(limit, n): the first entries of the list sorted
\* descending by the selected fraction, equal fractions in provider order.
C6_TopProcesses ==
    (Responded("get_top_processes") /\ arg.limit >= 0) =>
        LET n == Cardinality(C6_Readable)
            k == C6_Min(arg.limit, n)
        IN  /\ Len(Text) = 1 + k
            /\ Text[1].tag = "Top Processes"
            /\ Text[1].limit = arg.limit
            /\ Text[1].by = (IF arg.sort_by = "memory" THEN "MEMORY" ELSE "CPU")
            /\ \A m \in 1..k :
                  /\ Text[m + 1].tag = "entry"
                  /\ Text[m + 1].number = m
                  /\ Text[m + 1].pid \in C6_Readable
                  /\ C6_Rank(Text[m + 1].pid) = m
                  /\ Text[m + 1].cpu = arg.procs.reads[Text[m + 1].pid].cpu
                  /\ Text[m + 1].memory = arg.procs.reads[Text[m + 1].pid].mem

\* Three processes, the last two of the same CPU fraction above the
\* first's, and a limit of two: the tie is rendered in provider order.
C6_Witness ==
    /\ Responded("get_top_processes")
    /\ arg.limit = 2 /\ arg.sort_by = "cpu"
    /\ Len(arg.procs.reads) = 3
    /\ C6_Readable = {1, 2, 3}
    /\ arg.procs.reads[1].cpu = 1 /\ arg.procs.reads[2].cpu = 2 /\ arg.procs.reads[3].cpu = 2
    /\ Len(Text) = 3
    /\ Text[2].pid = 2 /\ Text[3].pid = 3

C10_Tags == [i \in DOMAIN Text |-> Text[i].tag]

C10_IsFrequency(line) == line.tag \in {"Current Frequency", "Max Frequency"}

C10_NotFrequency(tag) == tag \notin {"Current Frequency", "Max Frequency"}

\* C10: when cpu_freq() returns nothing or raises, no error reaches the
\* caller and the report has no frequency line, while the Overall, Per-Core
\* Usage (one line per core, index = position) and Load Average sections
\* are rendered in that order; a read that fails part-way does not lose the
\* later sections either.
C10_FrequencyOptional ==
    (pc = "responded" /\ request.name = "get_cpu_details" /\ ~arg.fails) =>
        /\ result.kind = "content"
        /\ arg.freq.kind \in {"raises", "none"} =>
              \A i \in DOMAIN Text : ~C10_IsFrequency(Text[i])
        /\ SelectSeq(C10_Tags, C10_NotFrequency)
              = <<"Detailed CPU Information", "Overall", "Physical Cores", "Logical Cores",
                  "Per-Core Usage">>
                \o [i \in 1..Len(arg.cores) |-> "Core"]
                \o <<"Load Average", "1 min", "5 min", "15 min">>
        /\ \A i \in DOMAIN Text :
              /\ C10_IsFrequency(Text[i]) => (i > 4 /\ i <= 6)
              /\ Text[i].tag = "Core" =>
                    \E c \in DOMAIN arg.cores :
                       /\ Text[i].index = c - 1
                       /\ Text[i].percent = arg.cores[c]
                       /\ i = Len(Text) - 4 - Len(arg.cores) + c

\* cpu_freq() raises on a machine of two cores: the report has its nine
\* fixed lines and the two core lines, none of them a frequency.
C10_Witness ==
    /\ Responded("get_cpu_details")
    /\ arg.freq.kind = "raises"
    /\ Len(arg.cores) = 2
    /\ Len(Text) = 11
    /\ Text[5].tag = "Per-Core Usage"
    /\ Text[7].tag = "Core" /\ Text[7].index = 1

\* C7 as stated: the number printed by format_bytes is in [0, 1024) for
\* every byte count.
C7_Below1024 ==
    pc = "return" => (ret.num.int >= 0 /\ ret.num.int < 1024)

\* The byte count is below 1024^6: no digit above the sixth is set.
C7_BelowPB(ds) == \A i \in 7..Len(ds) : ds[i] = 0

\* The digits of 0.95 in base 1024: 972, 819, 204, 819, 204, ...
C7_Digit95(j) == IF j = 1 THEN 972 ELSE IF j % 2 = 0 THEN 819 ELSE 204

\* The fraction made of the digits k, k-1, ..., 1 is above 0.95 (no finite
\* fraction in base 1024 equals 0.95).
RECURSIVE C7_FractionAbove95(_, _, _)
C7_FractionAbove95(ds, k, j) ==
    IF j > k THEN FALSE
    ELSE IF ds[k - j + 1] > C7_Digit95(j) THEN TRUE
    ELSE IF ds[k - j + 1] < C7_Digit95(j) THEN FALSE
    ELSE C7_FractionAbove95(ds, k, j + 1)

\* The scaled value, before it is rounded to one decimal, is in
\* [1023.95, 1024).
C7_RoundsTo1024(ds, k) ==
    /\ k >= 1
    /\ ds[k + 1] = 1023
    /\ C7_FractionAbove95(ds, k, 1)

C7_Scale(unit) ==
    CASE unit = "B" -> 0 [] unit = "KB" -> 1 [] unit = "MB" -> 2
      [] unit = "GB" -> 3 [] unit = "TB" -> 4 [] unit = "PB" -> 5

\* C7 (amended): the number printed by format_bytes is in [0, 1024.0] for
\* every byte count below 1024^6, and it is 1024.0 exactly when the scaled
\* value is 1023.95 or more (1024^2 - 1 prints 1024.0KB); a count of 1024^6
\* or more stays in PB and prints a number of 1024.0 or more.
C7_AtMost1024 ==
    pc = "return" =>
        /\ ret.num.int >= 0 /\ ret.num.dec \in 0..9
        /\ ret.unit \in {"B", "KB", "MB", "GB", "TB", "PB"}
        /\ C7_BelowPB(arg) =>
              /\ ret.num.int <= 1024
              /\ ret.num.int = 1024 =>
                    (ret.num.dec = 0 /\ C7_RoundsTo1024(arg, C7_Scale(ret.unit)))
              /\ C7_RoundsTo1024(arg, C7_Scale(ret.unit)) => ret.num.int = 1024
        /\ ~C7_BelowPB(arg) => (ret.unit = "PB" /\ ret.num.int >= 1024)

\* 1024^2 - 1 bytes print as 1024.0KB.
C7_Witness ==
    /\ pc = "return"
    /\ arg[1] = 1023 /\ arg[2] = 1023 /\ \A i \in 3..Len(arg) : arg[i] = 0
    /\ ret = [num |-> [int |-> 1024, dec |-> 0], unit |-> "KB"]

\* C8: format_uptime renders "0m" for every elapsed duration that is zero
\* or negative.
C8_NonPositiveIsZero ==
    (pc = "return" /\ arg <= 0) => ret = <<[n |-> 0, u |-> "m"]>>

C9_Units == [i \in DOMAIN ret |-> ret[i].u]

\* The days, hours and minutes a rendered string stands for; a part that is
\* not rendered stands for zero.
C9_Value(u) ==
    IF \E i \in DOMAIN ret : ret[i].u = u
    THEN (CHOOSE p \in { ret[i] : i \in DOMAIN ret } : p.u = u).n
    ELSE 0

C9_General ==
    LET d == C9_Value("d")
        h == C9_Value("h")
        m == C9_Value("m")
        floor == d * 86400 + h * 3600 + m * 60
    IN  /\ d >= 0 /\ h \in 0..23 /\ m \in 0..59
        /\ floor <= arg /\ arg < floor + 60
        /\ C9_Units = (IF d > 0 THEN <<"d", "h", "m">>
                       ELSE IF h > 0 THEN <<"h", "m">> ELSE <<"m">>)

\* C9 as stated: days, hours and minutes are the floored parts of the
\* duration, the leading zero parts are left out, and 90000 s gives
\* "1d 1h 30m", 5400 s "1h 30m", 45 s "0m".
C9_AsStated ==
    (pc = "return" /\ arg >= 0) =>
        /\ C9_General
        /\ arg = 90000 => ret = <<[n |-> 1, u |-> "d"], [n |-> 1, u |-> "h"], [n |-> 30, u |-> "m"]>>
        /\ arg = 5400 => ret = <<[n |-> 1, u |-> "h"], [n |-> 30, u |-> "m"]>>
        /\ arg = 45 => ret = <<[n |-> 0, u |-> "m"]>>

\* C9 (amended): the same, with 90000 s giving "1d 1h 0m" (it is 91800 s
\* that gives "1d 1h 30m").
C9_FlooredParts ==
    (pc = "return" /\ arg >= 0) =>
        /\ C9_General
        /\ arg = 90000 => ret = <<[n |-> 1, u |-> "d"], [n |-> 1, u |-> "h"], [n |-> 0, u |-> "m"]>>
        /\ arg = 91800 => ret = <<[n |-> 1, u |-> "d"], [n |-> 1, u |-> "h"], [n |-> 30, u |-> "m"]>>
        /\ arg = 5400 => ret = <<[n |-> 1, u |-> "h"], [n |-> 30, u |-> "m"]>>
        /\ arg = 45 => ret = <<[n |-> 0, u |-> "m"]>>

C9_Witness ==
    /\ pc = "return"
    /\ arg = 90000
    /\ ret = <<[n |-> 1, u |-> "d"], [n |-> 1, u |-> "h"], [n |-> 0, u |-> "m"]>>

====
